---- MODULE Spec2Model ----
(***************************************************************************)
(* ATLAS backend (src/backend/app.py): the credential failover of          *)
(* call_ai_agent, the run_debate / analyze_topic request handlers and the  *)
(* in-memory DEBATE_CACHE, as a state machine.                             *)
(*                                                                         *)
(* Six specifications share the variables:                                 *)
(*   SpecFailover  call_ai_agent alone, applied to every pool and every    *)
(*                 combination of answers of the inference service;        *)
(*   SpecShapes    call_ai_agent alone, applied to every shape of          *)
(*                 completion;                                             *)
(*   SpecKeys      the cache lookup alone, applied to pairs of (topic,     *)
(*                 model key);                                             *)
(*   Spec          both request handlers and the clock, the requests       *)
(*                 handled one after the other;                            *)
(*   SpecThreads   run_debate handled by two concurrent worker threads     *)
(*                 (Flask's threaded development server), and the clock;   *)
(*   SpecLive      run_debate with every request to the inference service  *)
(*                 a step of its own, under fairness.                      *)
(* Time is counted in minutes.                                             *)
(***************************************************************************)
EXTENDS Integers, Sequences, FiniteSets, TLC

VARIABLES
    hf_tokens,          \* the credential pool, app.py:17
    osint_keys,         \* news_api_key and jina_api_key are both set, app.py:30-31
    DEBATE_CACHE,       \* cache_key -> [timestamp, response], app.py:46
    conversation_logs,  \* rows of the conversation_logs table, init_db.py:10
    now,                \* what datetime.now() returns
    req,                \* per worker thread: the handler it runs (see Frame)
    stored,             \* history: every entry ever assigned to DEBATE_CACHE
    last_write,         \* history: per (topic, model key), the entry assigned last
    call                \* SpecFailover: the last call_ai_agent call and its result

vars == <<hf_tokens, osint_keys, DEBATE_CACHE, conversation_logs, now, req,
          stored, last_write, call>>

(***************************************************************************)
(* Bounds of the model.                                                    *)
(***************************************************************************)
MaxTokens == 3

MaxDebates == 2

MaxAnalyses == 1

MaxNow == 90

TickMinutes == 30

(***************************************************************************)
(* Configuration, app.py:17-65.                                            *)
(***************************************************************************)
SUPPORTED_MODELS ==
    [llama3  |-> "meta-llama/Meta-Llama-3-8B-Instruct",
     mistral |-> "mistralai/Mistral-7B-Instruct-v0.2",
     gemma   |-> "google/gemma-2-9b-it",
     phi3    |-> "microsoft/Phi-3-mini-4k-instruct"]

DEFAULT_MODEL == "llama3"

CACHE_EXPIRATION_MINUTES == 60

\* The keys of ROLE_PROMPTS; the prompt texts themselves decide nothing here.
ROLE_PROMPTS ==
    {"tech_optimist", "ai_ethicist", "bias_auditor", "moderator",
     "osint_analyst", "generic_agent"}

\* The environment: which of HF_TOKEN_1, HF_TOKEN_2, ... are set.
TokenName(i) == "HF_TOKEN_" \o ToString(i)

\* app.py:17-25: tokens are read from HF_TOKEN_1 on, up to the first one unset.
RECURSIVE LoadTokens(_, _)
LoadTokens(env, i) ==
    IF i \in env THEN <<TokenName(i)>> \o LoadTokens(env, i + 1) ELSE <<>>

(***************************************************************************)
(* Texts. A text written by the inference service is identified by what it *)
(* answers (the model asked, the topic in the prompt, the role of the      *)
(* system prompt) and by when it was asked: runs at different times get    *)
(* different texts. repr marks str(completion), the dump of the completion *)
(* carrying that text.                                                     *)
(***************************************************************************)
Text(model_id, topic, role, at) ==
    [model |-> model_id, topic |-> topic, role |-> role, at |-> at, repr |-> FALSE]

Absent == Text("", "", "absent", 0)

EmptyString == Text("", "", "", 0)

(***************************************************************************)
(* What the inference service answers to one chat_completion request.      *)
(*   exc = "none": a completion object came back;                          *)
(*   exc = "HfHubHTTPError": an HTTP error with status_code;               *)
(*   exc = "ConnectionError": a failure that is no HfHubHTTPError.         *)
(* A completion: has_choices / choices (the first choice only matters),    *)
(* generated_text (Absent when the attribute does not exist).              *)
(* A choice: kind "dict" (a dict holding "message"), "object" (an object   *)
(* with a message attribute), "other" (neither); content is the message's  *)
(* "content" entry, Absent when the message has none.                      *)
(***************************************************************************)
NoCompletion == [choices |-> <<>>, generated_text |-> Absent]

Choice(kind, content) == [kind |-> kind, content |-> content]

HttpError(status) ==
    [exc |-> "HfHubHTTPError", status_code |-> status, completion |-> NoCompletion]

ConnectionError ==
    [exc |-> "ConnectionError", status_code |-> 0, completion |-> NoCompletion]

Completed(c) == [exc |-> "none", status_code |-> 200, completion |-> c]

ErrorStatuses == {402, 429, 500}

\* The completions whose message content is `content`.
ChatCompletions(content) ==
    {[choices |-> <<Choice("dict", content)>>, generated_text |-> Absent]}

\* Every envelope shape call_ai_agent distinguishes, app.py:98-110.
AnyCompletions(content, gen) ==
    {[choices |-> ch, generated_text |-> g] :
        ch \in {<<>>, <<Choice("dict", content)>>, <<Choice("dict", Absent)>>,
                <<Choice("object", content)>>, <<Choice("other", Absent)>>},
        g \in {Absent, gen}}

Failures == {HttpError(s) : s \in ErrorStatuses} \cup {ConnectionError}

(***************************************************************************)
(* call_ai_agent, app.py:78-118.                                           *)
(***************************************************************************)
\* Mutants of IsQuotaStatus: 402 forgotten; every HTTP error retried.
IsQuotaStatusOnly429(status_code) == status_code = 429

IsQuotaStatusAnyError(status_code) == TRUE

\* app.py:113
IsQuotaStatus(status_code) == status_code \in {402, 429}

\* str(completion), app.py:110
Repr(completion) ==
    LET t == IF completion.choices # <<>> /\ completion.choices[1].content # Absent
             THEN completion.choices[1].content
             ELSE completion.generated_text
    IN  [t EXCEPT !.repr = TRUE]

\* message.get("content", ""), app.py:102 and 104
GetContent(choice) == IF choice.content = Absent THEN EmptyString ELSE choice.content

\* app.py:98-110: the text taken from a completion
ExtractText(completion) ==
    LET flat == IF completion.generated_text # Absent
                THEN completion.generated_text
                ELSE Repr(completion)
    IN  IF completion.choices # <<>>
        THEN LET choice == completion.choices[1]
             IN  IF choice.kind \in {"dict", "object"}
                 THEN GetContent(choice)
                 ELSE flat
        ELSE flat

NoException == [type |-> "none", status_code |-> 0, args |-> ""]

\* raise e, app.py:117 (and any exception chat_completion raises that is no HfHubHTTPError)
RemoteException(r) == [type |-> r.exc, status_code |-> r.status_code, args |-> ""]

\* app.py:118
AllTokensFailed ==
    [type |-> "Exception", status_code |-> 0,
     args |-> "All available API tokens have failed."]

Return(value, attempted) ==
    [kind |-> "return", value |-> value, exc |-> NoException, attempted |-> attempted]

Raise(e, attempted) ==
    [kind |-> "raise", value |-> Absent, exc |-> e, attempted |-> attempted]

\* Mutant of TokenLoop: the loop ends one credential early.
RECURSIVE TokenLoopSkipsLast(_, _, _, _)
TokenLoopSkipsLast(tokens, remote, i, attempted) ==
    IF i >= Len(tokens)
    THEN Raise(AllTokensFailed, attempted)
    ELSE LET r == remote[i]
             tried == Append(attempted, tokens[i])
         IN  IF r.exc = "none"
             THEN Return(ExtractText(r.completion), tried)
             ELSE IF r.exc = "HfHubHTTPError" /\ IsQuotaStatus(r.status_code)
                  THEN TokenLoopSkipsLast(tokens, remote, i + 1, tried)
                  ELSE Raise(RemoteException(r), tried)

\* app.py:83-118: the loop over the pool, from position i on. remote[i] is what the
\* service answers to the request made with tokens[i]; attempted are the tokens used.
RECURSIVE TokenLoop(_, _, _, _)
TokenLoop(tokens, remote, i, attempted) ==
    IF i > Len(tokens)
    THEN Raise(AllTokensFailed, attempted)
    ELSE LET r == remote[i]
             tried == Append(attempted, tokens[i])
         IN  IF r.exc = "none"
             THEN Return(ExtractText(r.completion), tried)
             ELSE IF r.exc = "HfHubHTTPError" /\ IsQuotaStatus(r.status_code)
                  THEN TokenLoop(tokens, remote, i + 1, tried)
                  ELSE Raise(RemoteException(r), tried)

\* Mutant of call_ai_agent: the loop starts at the second credential when there is one.
call_ai_agentFromSecond(tokens, remote) ==
    TokenLoop(tokens, remote, IF Len(tokens) > 1 THEN 2 ELSE 1, <<>>)

\* app.py:83: every call enumerates hf_tokens from its first element
call_ai_agent(tokens, remote) == TokenLoop(tokens, remote, 1, <<>>)

\* No call made yet. previous: the credentials the call before attempted.
NoCall == [remote |-> <<>>, result |-> Raise(NoException, <<>>), previous |-> <<>>]

(***************************************************************************)
(* get_article_content, app.py:120-163.                                    *)
(* The news search answers with a failure (a RequestException, raised by   *)
(* requests.get or raise_for_status) or with a list of articles. An        *)
(* article is well formed (it has title, source.name and url) or not; the  *)
(* reader answers for its url "ok", "not_ok" (a response that is not ok)   *)
(* or "error" (a RequestException).                                        *)
(***************************************************************************)
MaxArticles == 2

Article(well_formed, reader) == [well_formed |-> well_formed, reader |-> reader]

Articles == {Article(w, r) : w \in BOOLEAN, r \in {"ok", "not_ok", "error"}}

RECURSIVE ArticleLists(_)
ArticleLists(n) ==
    IF n = 0 THEN {<<>>}
    ELSE ArticleLists(n - 1) \cup
         {Append(l, a) : l \in {x \in ArticleLists(n - 1) : Len(x) = n - 1}, a \in Articles}

NewsAnswers ==
    {[search |-> "error", articles |-> <<>>]} \cup
    {[search |-> "ok", articles |-> l] : l \in ArticleLists(MaxArticles)}

Evidence(text) == [kind |-> "return", text |-> text, exc |-> NoException]

EvidenceRaises(e) == [kind |-> "raise", text |-> "", exc |-> e]

KeyError == [type |-> "KeyError", status_code |-> 0, args |-> "title"]

\* app.py:136-160: the loop over the articles, then the choice of the text
RECURSIVE ReadArticles(_, _, _, _)
ReadArticles(articles, i, full_text, headlines) ==
    IF i > Len(articles)
    THEN IF ~full_text
         THEN Evidence("Here is a summary of recent news headlines:")
         ELSE Evidence("--- ARTICLE START ---")
    ELSE IF ~articles[i].well_formed
         THEN EvidenceRaises(KeyError)
         ELSE ReadArticles(articles, i + 1,
                           full_text \/ articles[i].reader = "ok", TRUE)

get_article_content(keys, news) ==
    IF ~keys
    THEN Evidence("OSINT evidence gathering is disabled due to missing API keys.")
    ELSE IF news.search = "error"
         THEN Evidence("Could not retrieve any news articles.")
         ELSE IF news.articles = <<>>
              THEN Evidence("No relevant articles found.")
              ELSE ReadArticles(news.articles, 1, FALSE, FALSE)

(***************************************************************************)
(* The request bodies. json = "invalid": get_json_from_request returns     *)
(* None (app.py:165-171); otherwise a JSON object holding the keys named   *)
(* in `keys`.                                                              *)
(***************************************************************************)
Body(keys, topic, model) == [json |-> "object", keys |-> keys, topic |-> topic, model |-> model]

InvalidJson == [json |-> "invalid", keys |-> {}, topic |-> "", model |-> ""]

RequestBodies ==
    {InvalidJson,
     Body({"model"}, "", "mistral"),
     Body({"topic"}, "", ""),
     Body({"topic"}, "AI", ""),
     Body({"topic", "model"}, "AI", "mistral"),
     Body({"topic", "model"}, "AI", "gpt5")}

Endpoints == {"run_debate", "analyze_topic"}

(***************************************************************************)
(* The handlers' pure parts.                                               *)
(***************************************************************************)
Message(text) == [type |-> "", status_code |-> 0, args |-> text]

\* app.py:182/207 and 188/213
BadRequest(text) == [status |-> 400, body |-> [status |-> "error", message |-> Message(text)]]

\* data.get("model", DEFAULT_MODEL), app.py:185/210
ModelKey(data) == IF "model" \in data.keys THEN data.model ELSE DEFAULT_MODEL

\* Mutant of ModelId: an unknown key falls back to the default model.
ModelIdWithDefault(model_key) ==
    IF model_key \in DOMAIN SUPPORTED_MODELS
    THEN SUPPORTED_MODELS[model_key]
    ELSE SUPPORTED_MODELS[DEFAULT_MODEL]

\* SUPPORTED_MODELS.get(model_key), app.py:186/211; "" stands for None
ModelId(model_key) ==
    IF model_key \in DOMAIN SUPPORTED_MODELS THEN SUPPORTED_MODELS[model_key] ELSE ""

\* app.py:180-188 and 205-213: the checks made before anything else
Validate(data) ==
    IF data.json = "invalid" \/ data.keys = {} \/ "topic" \notin data.keys
    THEN [ok |-> FALSE,
          response |-> BadRequest("Request body must be valid JSON and include 'topic'")]
    ELSE IF ModelId(ModelKey(data)) = ""
         THEN [ok |-> FALSE,
               response |-> BadRequest("Model '" \o ModelKey(data) \o "' not supported.")]
         ELSE [ok |-> TRUE, response |-> BadRequest("")]

\* Mutant of CacheKey: the default model's key is used for every model.
CacheKeyDefaultModel(topic, model_key) == topic \o "_" \o DEFAULT_MODEL

\* Mutant of CacheKey: the model key is left out of the key.
CacheKeyTopicOnly(topic, model_key) == topic

\* app.py:215
CacheKey(topic, model_key) == topic \o "_" \o model_key

NoBody == [status |-> "none"]

NoEntry == [timestamp |-> -1, response |-> NoBody]

\* Mutant of IsFresh: an entry aged exactly the TTL still counts as fresh.
IsFreshInclusive(cached_data, t) ==
    t <= cached_data.timestamp + CACHE_EXPIRATION_MINUTES

\* app.py:218
IsFresh(cached_data, t) == t < cached_data.timestamp + CACHE_EXPIRATION_MINUTES

\* Mutant of CachePut: writing an entry evicts the entries of the other keys.
CachePutEvicts(cache, key, entry) == [k \in {key} |-> entry]

\* Mutant of CachePut: the first entry written for a key is kept.
CachePutIfAbsent(cache, key, entry) ==
    IF key \in DOMAIN cache THEN cache
    ELSE [k \in DOMAIN cache \cup {key} |-> IF k = key THEN entry ELSE cache[k]]

\* DEBATE_CACHE[cache_key] = ..., app.py:248
CachePut(cache, key, entry) ==
    [k \in DOMAIN cache \cup {key} |-> IF k = key THEN entry ELSE cache[k]]

\* Mutant of debaters: only one debater is asked.
debatersOnlyOptimist == <<"tech_optimist">>

\* app.py:226, in the dict's order
debaters == <<"tech_optimist", "ai_ethicist">>

\* Mutant of ResponseData: the response is put together before the audit is in.
ResponseDataWithoutAudit(h) ==
    [status |-> "success",
     debate_transcript |-> h.debate_transcript,
     audit_report |-> Absent,
     final_synthesis |-> h.final_synthesis]

\* app.py:242-247
ResponseData(h) ==
    [status |-> "success",
     debate_transcript |-> h.debate_transcript,
     audit_report |-> h.audit_report,
     final_synthesis |-> h.final_synthesis]


(***************************************************************************)
(* Initial states.                                                         *)
(***************************************************************************)
NoResponse == [status |-> 0, body |-> NoBody]

\* A handler: the request (endpoint, data), the handler's locals (topic .. stamp),
\* its response, and what it has done so far: lookup is the outcome of its cache
\* lookup, calls the roles it called call_ai_agent for, and evidence_calls,
\* cache_reads, cache_stores, log_appends count its own operations. Where
\* call_ai_agent is taken one request to the service at a time (SpecLive), i is
\* the position in the pool of the call under way and attempts counts the
\* requests sent to the service.
Frame(pc, endpoint, data) ==
    [pc |-> pc, endpoint |-> endpoint, data |-> data,
     topic |-> "", model_key |-> "", model_id |-> "", cache_key |-> "",
     cached_data |-> NoEntry, article_text |-> "", debate_transcript |-> <<>>,
     audit_report |-> Absent, final_synthesis |-> Absent, report |-> Absent,
     response_data |-> NoBody, stamp |-> -1, response |-> NoResponse,
     lookup |-> "none", calls |-> <<>>, i |-> 0, attempts |-> 0,
     evidence_calls |-> 0, cache_reads |-> 0,
     cache_stores |-> 0, log_appends |-> 0]

Idle == Frame("idle", "", InvalidJson)

\* return: the response goes out and the handler's locals are gone; what stays is
\* the request and what the handler did (stamp: the timestamp it wrote, if any).
Returned(h, response) ==
    [Frame("done", h.endpoint, h.data) EXCEPT
        !.response = response, !.stamp = h.stamp, !.lookup = h.lookup,
        !.calls = h.calls, !.attempts = h.attempts,
        !.evidence_calls = h.evidence_calls, !.cache_reads = h.cache_reads,
        !.cache_stores = h.cache_stores, !.log_appends = h.log_appends]

\* Mutant of Fail: the error response carries the transcript gathered so far.
FailWithTranscript(h, e) ==
    Returned(h, [status |-> 500,
                 body |-> [status |-> "error", message |-> e,
                           debate_transcript |-> h.debate_transcript]])

\* except Exception as e, app.py:200-201 and 252-253
Fail(h, e) ==
    Returned(h, [status |-> 500, body |-> [status |-> "error", message |-> e]])

\* app.py:17-47: the process starts only with a non-empty pool (app.py:27-28)
InitProcess ==
    /\ \E env \in SUBSET (1 .. MaxTokens) :
          /\ LoadTokens(env, 1) # <<>>
          /\ hf_tokens = LoadTokens(env, 1)
    /\ osint_keys \in BOOLEAN
    /\ DEBATE_CACHE = <<>>
    /\ conversation_logs = <<>>
    /\ now = 0
    /\ req = <<Idle>>
    /\ stored = {}
    /\ last_write = <<>>
    /\ call = NoCall

\* The server: every HF_TOKEN_i up to MaxTokens is set; one worker thread.
InitServer ==
    /\ InitProcess
    /\ Len(hf_tokens) = MaxTokens

\* The same with two worker threads (Flask's development server starts a thread
\* per request, app.py:260) and both news keys set: without them
\* get_article_content has one outcome, which it also has with them.
InitThreads ==
    /\ hf_tokens = LoadTokens(1 .. MaxTokens, 1)
    /\ osint_keys = TRUE
    /\ DEBATE_CACHE = <<>>
    /\ conversation_logs = <<>>
    /\ now = 0
    /\ req = <<Idle, Idle>>
    /\ stored = {}
    /\ last_write = <<>>
    /\ call = NoCall

(***************************************************************************)
(* SpecFailover: call_ai_agent applied to every pool and every combination *)
(* of answers, one answer per credential.                                  *)
(***************************************************************************)
FailoverText(x) == Text(SUPPORTED_MODELS[DEFAULT_MODEL], x, "generic_agent", 0)

FailoverTexts == {FailoverText("A")}

\* Per credential: a failure, a chat completion carrying A, or a flat
\* generated-text completion carrying G.
FailoverAnswers ==
    Failures \cup
    {Completed(c) : c \in UNION {ChatCompletions(x) : x \in FailoverTexts}} \cup
    {Completed([choices |-> <<>>, generated_text |-> FailoverText("G")])}

FailoverCall ==
    /\ \E remote \in [1 .. Len(hf_tokens) -> FailoverAnswers] :
          call' = [remote |-> remote, result |-> call_ai_agent(hf_tokens, remote),
                   previous |-> call.result.attempted]
    /\ UNCHANGED <<hf_tokens, osint_keys, DEBATE_CACHE, conversation_logs, now,
                   req, stored, last_write>>

NextFailover == FailoverCall

\* call_ai_agent reads hf_tokens only: the news keys are taken as set.
InitFailover == InitProcess /\ osint_keys

SpecFailover == InitFailover /\ [][NextFailover]_vars

(***************************************************************************)
(* SpecShapes: call_ai_agent applied to every shape of completion it       *)
(* distinguishes, returned by the first credential that is not over quota. *)
(***************************************************************************)
ShapeCall ==
    /\ \E c \in AnyCompletions(FailoverText("A"), FailoverText("G")),
          k \in 0 .. Len(hf_tokens) - 1, q \in {402, 429} :
          LET remote == [j \in 1 .. Len(hf_tokens) |->
                            IF j <= k THEN HttpError(q) ELSE Completed(c)]
          IN  call' = [remote |-> remote,
                       result |-> call_ai_agent(hf_tokens, remote),
                       previous |-> call.result.attempted]
    /\ UNCHANGED <<hf_tokens, osint_keys, DEBATE_CACHE, conversation_logs, now,
                   req, stored, last_write>>

NextShapes == ShapeCall

SpecShapes == InitFailover /\ [][NextShapes]_vars

(***************************************************************************)
(* Spec: the request handlers. Each worker thread runs one handler at a    *)
(* time; a step is a stretch of the handler that ends with an access to    *)
(* what the threads share (DEBATE_CACHE, the clock, the log). The blocking *)
(* remote calls in between touch the handler's locals only, so they are    *)
(* taken together with the access that follows them.                       *)
(***************************************************************************)
\* What the service can answer to the call handler h makes for `role`: an HTTP
\* error, or a chat completion with a text of its own.
Answers(h, role) ==
    {HttpError(s) : s \in ErrorStatuses} \cup
    {Completed(c) :
        c \in ChatCompletions(Text(h.model_id, h.topic, role, now))}

\* The possible outcomes of call_ai_agent(model_id, ROLE_PROMPTS[role], ...)
Inference(h, role) ==
    {call_ai_agent(hf_tokens, remote) :
        remote \in [1 .. Len(hf_tokens) -> Answers(h, role)]}

\* No finished request is waiting to be dropped (see Release).
Quiet == \A u \in DOMAIN req : req[u].pc # "done"

\* app.py:180-188 and 205-213: a request arrives on a free thread and is validated
Receive(t, endpoint, data) ==
    /\ Quiet
    /\ req[t].pc = "idle"
    /\ LET v == Validate(data)
           f == Frame("start", endpoint, data)
       IN  req' = [req EXCEPT ![t] =
                IF ~v.ok
                THEN Returned(f, v.response)
                ELSE [f EXCEPT !.pc = IF endpoint = "run_debate" THEN "lookup"
                                      ELSE "evidence",
                               !.topic = data.topic,
                               !.model_key = ModelKey(data),
                               !.model_id = ModelId(ModelKey(data))]]
    /\ UNCHANGED <<hf_tokens, osint_keys, DEBATE_CACHE, conversation_logs, now,
                   stored, last_write, call>>

run_debate(t) == \E data \in RequestBodies : Receive(t, "run_debate", data)

analyze_topic(t) == \E data \in RequestBodies : Receive(t, "analyze_topic", data)

\* app.py:215-217: the key is built and the entry, if any, is read from cache
Lookup(h, cache) ==
    LET key == CacheKey(h.topic, h.model_key)
    IN  IF key \in DOMAIN cache
        THEN [h EXCEPT !.pc = "check", !.cache_key = key,
                       !.cache_reads = h.cache_reads + 1,
                       !.cached_data = cache[key]]
        ELSE [h EXCEPT !.pc = "evidence", !.cache_key = key,
                       !.cache_reads = h.cache_reads + 1,
                       !.lookup = "miss"]

\* app.py:215-217, by the handler of thread t
CacheRead(t) ==
    /\ Quiet
    /\ req[t].pc = "lookup"
    /\ req' = [req EXCEPT ![t] = Lookup(req[t], DEBATE_CACHE)]
    /\ UNCHANGED <<hf_tokens, osint_keys, DEBATE_CACHE, conversation_logs, now,
                   stored, last_write, call>>

\* app.py:218-220: the entry read is compared with the clock
CacheCheckFresh(t) ==
    /\ Quiet
    /\ req[t].pc = "check"
    /\ LET h == req[t]
       IN  req' = [req EXCEPT ![t] =
                IF IsFresh(h.cached_data, now)
                THEN Returned([h EXCEPT !.lookup = "hit"],
                              [status |-> 200, body |-> h.cached_data.response])
                ELSE [h EXCEPT !.pc = "evidence", !.lookup = "expired"]]
    /\ UNCHANGED <<hf_tokens, osint_keys, DEBATE_CACHE, conversation_logs, now,
                   stored, last_write, call>>

\* The outcomes of get_article_content(topic), app.py:191 and 223
EvidenceStep(h) ==
    {LET g == [h EXCEPT !.evidence_calls = @ + 1]
     IN  IF ev.kind = "raise" THEN Fail(g, ev.exc)
         ELSE [g EXCEPT !.article_text = ev.text] :
        ev \in {get_article_content(osint_keys, news) : news \in NewsAnswers}}

\* app.py:228-232: one turn of the loop over the debaters
DebaterStep(h, role) ==
    {LET g == [h EXCEPT !.calls = Append(@, role)]
     IN  IF res.kind = "raise" THEN Fail(g, res.exc)
         ELSE [g EXCEPT !.debate_transcript =
                            Append(@, [role |-> role, statement |-> res.value])] :
        res \in Inference(h, role)}

\* Mutant of AuditStep: a failed audit call is made once more.
AuditStepRetries(h) ==
    {LET g == [h EXCEPT !.calls = Append(@, "bias_auditor")]
     IN  IF res.kind = "raise"
         THEN Fail([g EXCEPT !.calls = Append(@, "bias_auditor")], res.exc)
         ELSE [g EXCEPT !.audit_report = res.value] :
        res \in Inference(h, "bias_auditor")}

\* app.py:234-237
AuditStep(h) ==
    {LET g == [h EXCEPT !.calls = Append(@, "bias_auditor")]
     IN  IF res.kind = "raise" THEN Fail(g, res.exc)
         ELSE [g EXCEPT !.audit_report = res.value] :
        res \in Inference(h, "bias_auditor")}

\* app.py:239-240
ModeratorStep(h) ==
    {LET g == [h EXCEPT !.calls = Append(@, "moderator")]
     IN  IF res.kind = "raise" THEN Fail(g, res.exc)
         ELSE [g EXCEPT !.final_synthesis = res.value] :
        res \in Inference(h, "moderator")}

\* app.py:192-194
AnalystStep(h) ==
    {LET g == [h EXCEPT !.calls = Append(@, "osint_analyst")]
     IN  IF res.kind = "raise" THEN Fail(g, res.exc)
         ELSE [g EXCEPT !.report = res.value] :
        res \in Inference(h, "osint_analyst")}

\* A statement of the try block applied to the handlers still running; a handler
\* that raised has left the block (app.py:200 and 252).
Then(H, Step(_)) ==
    {h \in H : h.pc = "done"} \cup UNION {Step(h) : h \in {g \in H : g.pc # "done"}}

\* app.py:227-232: the loop over the debaters, from the k-th on
RECURSIVE DebateLoop(_, _)
DebateLoop(H, k) ==
    IF k > Len(debaters) THEN H
    ELSE LET Turn(h) == DebaterStep(h, debaters[k])
         IN  DebateLoop(Then(H, Turn), k + 1)

\* app.py:242-248: the response is built and the entry's timestamp is taken. Of
\* the locals, only cache_key, response_data and the timestamp are read afterwards.
Assemble(h) ==
    {[h EXCEPT !.response_data = ResponseData(h), !.stamp = now, !.pc = "store",
               !.cached_data = NoEntry, !.article_text = "",
               !.debate_transcript = <<>>, !.audit_report = Absent,
               !.final_synthesis = Absent]}

\* Mutant of RunDebateStages: the audit is asked for before the debaters speak.
RunDebateStagesAuditFirst(h) ==
    Then(Then(DebateLoop(Then(EvidenceStep(h), AuditStep), 1), ModeratorStep), Assemble)

\* app.py:222-248, up to the evaluation of the entry to store: every way the
\* try block of run_debate can run
RunDebateStages(h) ==
    Then(Then(Then(DebateLoop(EvidenceStep(h), 1), AuditStep), ModeratorStep), Assemble)

\* app.py:222-253: evidence, the four calls in turn, the response and its timestamp.
\* None of it reads or writes what the threads share but the clock, read last.
Orchestrate(t) ==
    /\ Quiet
    /\ req[t].pc = "evidence"
    /\ req[t].endpoint = "run_debate"
    /\ Cardinality(stored) + Cardinality({u \in DOMAIN req : req[u].pc = "store"})
          < MaxDebates
    /\ \E h \in RunDebateStages(req[t]) : req' = [req EXCEPT ![t] = h]
    /\ UNCHANGED <<hf_tokens, osint_keys, DEBATE_CACHE, conversation_logs, now,
                   stored, last_write, call>>

\* DEBATE_CACHE[cache_key] = ..., then return, app.py:248-251
Store(t) ==
    /\ Quiet
    /\ req[t].pc = "store"
    /\ LET h == req[t]
           entry == [timestamp |-> h.stamp, response |-> h.response_data]
       IN  /\ DEBATE_CACHE' = CachePut(DEBATE_CACHE, h.cache_key, entry)
           /\ stored' = stored \cup
                  {[topic |-> h.topic, model_key |-> h.model_key, entry |-> entry]}
           /\ last_write' = [k \in DOMAIN last_write \cup {<<h.topic, h.model_key>>} |->
                                IF k = <<h.topic, h.model_key>> THEN entry
                                ELSE last_write[k]]
           /\ req' = [req EXCEPT ![t] =
                  Returned([h EXCEPT !.cache_stores = h.cache_stores + 1],
                           [status |-> 200, body |-> h.response_data])]
    /\ UNCHANGED <<hf_tokens, osint_keys, conversation_logs, now, call>>

\* app.py:190-201: evidence, the analyst's call, the log entry (add_log_entry,
\* app.py:72-76) and the response
Analyze(t) ==
    /\ Quiet
    /\ req[t].pc = "evidence"
    /\ req[t].endpoint = "analyze_topic"
    /\ Len(conversation_logs) < MaxAnalyses
    /\ \E h \in Then(EvidenceStep(req[t]), AnalystStep) :
          IF h.pc = "done"
          THEN /\ req' = [req EXCEPT ![t] = h]
               /\ UNCHANGED conversation_logs
          ELSE /\ conversation_logs' = Append(conversation_logs,
                      [timestamp |-> now,
                       user_message |-> "OSINT Analysis on: " \o h.topic,
                       ai_response |-> h.report])
               /\ req' = [req EXCEPT ![t] =
                      Returned([h EXCEPT !.log_appends = h.log_appends + 1],
                               [status |-> 200,
                                body |-> [status |-> "success",
                                          osint_report |-> h.report]])]
    /\ UNCHANGED <<hf_tokens, osint_keys, DEBATE_CACHE, now, stored, last_write, call>>

\* The response of a finished handler has gone out: its thread is free again. A
\* finished request is kept for this one step, in which nothing else moves, so
\* that it is seen together with the state it finished in.
Release(t) ==
    /\ req[t].pc = "done"
    /\ req' = [req EXCEPT ![t] = Idle]
    /\ UNCHANGED <<hf_tokens, osint_keys, DEBATE_CACHE, conversation_logs, now,
                   stored, last_write, call>>

\* The clock advances.
Tick ==
    /\ Quiet
    /\ now + TickMinutes <= MaxNow
    /\ now' = now + TickMinutes
    /\ UNCHANGED <<hf_tokens, osint_keys, DEBATE_CACHE, conversation_logs, req,
                   stored, last_write, call>>

\* Both endpoints, served by the threads of req.
Next ==
    \/ \E t \in DOMAIN req :
          \/ run_debate(t)
          \/ analyze_topic(t)
          \/ CacheRead(t)
          \/ CacheCheckFresh(t)
          \/ Orchestrate(t)
          \/ Store(t)
          \/ Analyze(t)
          \/ Release(t)
    \/ Tick

Spec == InitServer /\ [][Next]_vars

\* run_debate alone, requests running concurrently.
NextThreads ==
    \/ \E t \in DOMAIN req :
          \/ run_debate(t)
          \/ CacheRead(t)
          \/ CacheCheckFresh(t)
          \/ Orchestrate(t)
          \/ Store(t)
          \/ Release(t)
    \/ Tick

SpecThreads == InitThreads /\ [][NextThreads]_vars

(***************************************************************************)
(* SpecKeys: the cache lookup of run_debate alone. The cache holds the     *)
(* result of one (topic, model key) and a request for another, or the      *)
(* same, pair looks its key up. The topics include ones that end like a    *)
(* key: with "_" and with the name of a model.                             *)
(***************************************************************************)
Topics == {"", "_", "AI", "AI_", "AI_llama3", "AI_mistral", "llama3", "mistral"}

Pairs == Topics \X DOMAIN SUPPORTED_MODELS

\* The payload run_debate builds for (topic, model_key) at time `at`.
Result(topic, model_key, at) ==
    LET T(role) == Text(SUPPORTED_MODELS[model_key], topic, role, at)
    IN  ResponseData([debate_transcript |->
                          [k \in 1 .. Len(debaters) |->
                              [role |-> debaters[k], statement |-> T(debaters[k])]],
                      audit_report |-> T("bias_auditor"),
                      final_synthesis |-> T("moderator")])

\* A validated request for pair p, before its lookup (app.py:209-213)
Validated(p) ==
    [Frame("lookup", "run_debate", Body({"topic", "model"}, p[1], p[2])) EXCEPT
        !.topic = p[1], !.model_key = p[2], !.model_id = ModelId(p[2])]

KeyLookup ==
    /\ \E p \in Pairs, q \in Pairs :
          LET cache == CachePut(<<>>, CacheKey(p[1], p[2]),
                                [timestamp |-> now, response |-> Result(p[1], p[2], now)])
          IN  /\ DEBATE_CACHE' = cache
              /\ req' = <<Lookup(Validated(q), cache)>>
    /\ UNCHANGED <<hf_tokens, osint_keys, conversation_logs, now, stored,
                   last_write, call>>

NextKeys == KeyLookup

SpecKeys == InitThreads /\ [][NextKeys]_vars

(***************************************************************************)
(* SpecLive: run_debate with call_ai_agent taken one request to the        *)
(* inference service at a time, for what is claimed about termination. A   *)
(* request is let in while the bound on stored debates leaves room for it, *)
(* so that no request waits for the bound.                                 *)
(***************************************************************************)
\* app.py:226-240: the roles called, in the order of the calls
Stages == debaters \o <<"bias_auditor", "moderator">>

\* Mutant of NextPosition: after the last credential the loop starts over.
NextPositionWraps(tokens, i) == IF i < Len(tokens) THEN i + 1 ELSE 1

\* app.py:83 and 115: `continue` moves to the next credential; 0 when there is
\* none left and the loop ends (app.py:118).
NextPosition(tokens, i) == IF i < Len(tokens) THEN i + 1 ELSE 0

\* call_ai_agent is entered for `role`: the loop is at the first credential.
StartCall(h, role) == [h EXCEPT !.pc = "call", !.calls = Append(@, role), !.i = 1]

\* app.py:232, 237, 240: the text returned by the k-th call is kept, and the next
\* call is made or, after the last one, the response is built.
Deliver(h, text) ==
    LET k == Len(h.calls)
        g == IF k <= Len(debaters)
             THEN [h EXCEPT !.debate_transcript =
                                Append(@, [role |-> h.calls[k], statement |-> text])]
             ELSE IF k = Len(debaters) + 1
                  THEN [h EXCEPT !.audit_report = text]
                  ELSE [h EXCEPT !.final_synthesis = text]
    IN  IF k < Len(Stages)
        THEN StartCall(g, Stages[k + 1])
        ELSE CHOOSE a \in {[x EXCEPT !.i = 0] : x \in Assemble(g)} : TRUE

\* A request arrives (app.py:205-213) while there is room for its result.
Arrive(t) ==
    /\ Cardinality(stored) < MaxDebates
    /\ run_debate(t)

\* app.py:223-231: the evidence is gathered and the first call is entered
GatherEvidence(t) ==
    /\ req[t].pc = "evidence"
    /\ req[t].endpoint = "run_debate"
    /\ \E g \in EvidenceStep(req[t]) :
          req' = [req EXCEPT ![t] =
                     IF g.pc = "done" THEN g ELSE StartCall(g, Stages[1])]
    /\ UNCHANGED <<hf_tokens, osint_keys, DEBATE_CACHE, conversation_logs, now,
                   stored, last_write, call>>

\* app.py:85-118: one turn of the loop of call_ai_agent: the request made with
\* hf_tokens[i] is answered
Attempt(t) ==
    /\ req[t].pc = "call"
    /\ LET h == req[t]
           g == [h EXCEPT !.attempts = @ + 1]
       IN  \E r \in Answers(h, h.calls[Len(h.calls)]) :
              req' = [req EXCEPT ![t] =
                  IF r.exc = "none"
                  THEN Deliver(g, ExtractText(r.completion))
                  ELSE IF r.exc = "HfHubHTTPError" /\ IsQuotaStatus(r.status_code)
                       THEN IF NextPosition(hf_tokens, h.i) = 0
                            THEN Fail(g, AllTokensFailed)
                            ELSE [g EXCEPT !.i = NextPosition(hf_tokens, h.i)]
                       ELSE Fail(g, RemoteException(r))]
    /\ UNCHANGED <<hf_tokens, osint_keys, DEBATE_CACHE, conversation_logs, now,
                   stored, last_write, call>>

\* The steps a handler takes by itself once its request is in.
Run(t) ==
    \/ CacheRead(t)
    \/ CacheCheckFresh(t)
    \/ GatherEvidence(t)
    \/ Attempt(t)
    \/ Store(t)

NextLive ==
    \/ \E t \in DOMAIN req :
          \/ Arrive(t)
          \/ Run(t)
          \/ Release(t)
    \/ Tick

\* The thread of a request keeps running and every remote call returns.
Fairness == WF_vars(\E t \in DOMAIN req : Run(t))

\* One worker thread, both news keys set (without them get_article_content has
\* one outcome, which it also has with them).
InitLive == InitServer /\ osint_keys

SpecLive == InitLive /\ [][NextLive]_vars /\ Fairness

(***************************************************************************)
(* Claims about call_ai_agent, checked under SpecFailover.                 *)
(***************************************************************************)
\* The answer is a quota-type failure: HTTP 402 or 429.
QuotaAnswer(r) == r.exc = "HfHubHTTPError" /\ r.status_code \in {402, 429}

\* The text the service put into a completion of the shapes of FailoverAnswers.
ProducedText(c) == IF c.choices # <<>> THEN c.choices[1].content ELSE c.generated_text

\* C1: for every pool of N credentials and every K < N, when credentials 1..K each
\* answer with a quota-type error (402 or 429) and credential K+1 succeeds, the call
\* returns the text produced with credential K+1 and the credentials attempted are
\* exactly 1..K+1: K+2..N are never attempted.
C1_ReturnsFirstSuccess ==
    call # NoCall =>
        \A k \in 0 .. Len(hf_tokens) - 1 :
            ( /\ \A j \in 1 .. k : QuotaAnswer(call.remote[j])
              /\ call.remote[k + 1].exc = "none" )
            => /\ call.result.kind = "return"
               /\ call.result.value = ProducedText(call.remote[k + 1].completion)
               /\ call.result.attempted = SubSeq(hf_tokens, 1, k + 1)

\* C1 witness: three credentials, the first over quota, the second and the third
\* both able to answer with different texts; the second one's text is returned.
C1_Witness ==
    /\ Len(hf_tokens) = 3
    /\ call # NoCall
    /\ call.remote[1] = HttpError(402)
    /\ call.remote[2] = Completed([choices |-> <<Choice("dict", FailoverText("A"))>>,
                                   generated_text |-> Absent])
    /\ call.remote[3] = Completed([choices |-> <<>>,
                                   generated_text |-> FailoverText("G")])
    /\ call.result.value = FailoverText("A")
    /\ call.result.attempted = <<TokenName(1), TokenName(2)>>

\* C2: when the credential at position i answers with an HTTP error that is neither
\* 402 nor 429 (the credentials before it having answered with quota errors), the
\* call raises that very error, not the all-tokens-failed error, and no credential
\* after position i is attempted.
C2_FatalAbortsAtOnce ==
    call # NoCall =>
        \A i \in 1 .. Len(hf_tokens) :
            ( /\ \A j \in 1 .. i - 1 : QuotaAnswer(call.remote[j])
              /\ call.remote[i].exc = "HfHubHTTPError"
              /\ call.remote[i].status_code \notin {402, 429} )
            => /\ call.result.kind = "raise"
               /\ call.result.exc.type = "HfHubHTTPError"
               /\ call.result.exc.status_code = call.remote[i].status_code
               /\ call.result.exc # AllTokensFailed
               /\ call.result.attempted = SubSeq(hf_tokens, 1, i)

\* C2 witness: the second of three credentials answers 500 after a 429 of the first,
\* while the third could have answered.
C2_Witness ==
    /\ Len(hf_tokens) = 3
    /\ call # NoCall
    /\ call.remote[1] = HttpError(429)
    /\ call.remote[2] = HttpError(500)
    /\ call.remote[3].exc = "none"
    /\ call.result.kind = "raise"
    /\ call.result.exc.status_code = 500
    /\ Len(call.result.attempted) = 2

\* C3: the call fails with the all-tokens-failed error if and only if every
\* credential of the pool was attempted and each answered with a quota-type error;
\* and a quota-type error is never the error raised while a credential is untried.
C3_ExhaustedIffAllQuota ==
    call # NoCall =>
        /\ (call.result.kind = "raise" /\ call.result.exc = AllTokensFailed)
              <=> ( /\ call.result.attempted = hf_tokens
                    /\ \A j \in 1 .. Len(hf_tokens) : QuotaAnswer(call.remote[j]) )
        /\ ( /\ call.result.kind = "raise"
             /\ Len(call.result.attempted) < Len(hf_tokens) )
              => ~ ( /\ call.result.exc.type = "HfHubHTTPError"
                     /\ call.result.exc.status_code \in {402, 429} )

\* C3 witness: three credentials, all over quota (402, 429, 402), all attempted.
C3_Witness ==
    /\ Len(hf_tokens) = 3
    /\ call # NoCall
    /\ call.remote = <<HttpError(402), HttpError(429), HttpError(402)>>
    /\ call.result.kind = "raise"
    /\ call.result.exc = AllTokensFailed
    /\ call.result.attempted = hf_tokens

(***************************************************************************)
(* Claims about the request handlers, checked under Spec (requests one     *)
(* after the other) and SpecThreads (run_debate on two threads).           *)
(***************************************************************************)
\* Thread t shows a run_debate request that has just returned.
RunDebateDone(t) == req[t].pc = "done" /\ req[t].endpoint = "run_debate"

\* The request of h passes both validations.
WellFormed(h) ==
    /\ h.data.json = "object"
    /\ "topic" \in h.data.keys
    /\ ModelKey(h.data) \in {"llama3", "mistral", "gemma", "phi3"}

\* The (topic, model key) the request of h asks for, and the key's text.
RequestedPair(h) == <<h.data.topic, ModelKey(h.data)>>

RequestedKey(h) == h.data.topic \o "_" \o ModelKey(h.data)

FourCalls == <<"tech_optimist", "ai_ethicist", "bias_auditor", "moderator">>

\* C4: a run_debate request served from the cache returns, with status 200 and
\* "success", exactly the payload last stored for its (topic, model key), having
\* made no inference call, no evidence call and no cache write; and a well-formed
\* request that finds a stored entry for its pair younger than 60 minutes is
\* served from the cache.
C4_CacheHit ==
    \A t \in DOMAIN req :
        RunDebateDone(t) =>
            LET h == req[t]
                pair == RequestedPair(h)
            IN  /\ h.lookup = "hit" =>
                      /\ pair \in DOMAIN last_write
                      /\ h.response = [status |-> 200,
                                       body |-> last_write[pair].response]
                      /\ h.response.body.status = "success"
                      /\ h.calls = <<>>
                      /\ h.evidence_calls = 0
                      /\ h.cache_stores = 0
                /\ ( /\ WellFormed(h)
                     /\ h.cache_stores = 0
                     /\ pair \in DOMAIN last_write
                     /\ now - last_write[pair].timestamp < 60 )
                   => h.lookup = "hit"

\* C4 witness: a request for (AI, mistral) is served from the cache while an entry
\* for (AI, llama3) is stored as well.
C4_Witness ==
    \E t \in DOMAIN req :
        /\ RunDebateDone(t)
        /\ req[t].lookup = "hit"
        /\ RequestedPair(req[t]) = <<"AI", "mistral">>
        /\ req[t].response.status = 200
        /\ <<"AI", "llama3">> \in DOMAIN last_write
        /\ last_write[<<"AI", "llama3">>].response # req[t].response.body

\* C5: a run_debate request is served from the cache only while
\* now < timestamp + 60 minutes. A request that finds an entry aged 60 minutes or
\* more gathers evidence again and either fails (500) or makes the four calls,
\* stores once, and leaves in the cache its own result under its own timestamp,
\* which is at least 60 minutes after the replaced entry's.
C5_ExpiredIsMiss ==
    \A t \in DOMAIN req :
        RunDebateDone(t) =>
            LET h == req[t]
                pair == RequestedPair(h)
            IN  /\ h.lookup = "hit" =>
                      /\ pair \in DOMAIN last_write
                      /\ now < last_write[pair].timestamp + 60
                /\ ( /\ WellFormed(h)
                     /\ h.cache_stores = 0
                     /\ pair \in DOMAIN last_write
                     /\ now >= last_write[pair].timestamp + 60 )
                   => /\ h.lookup = "expired"
                      /\ h.response.status = 500
                /\ h.lookup = "expired" =>
                      /\ h.evidence_calls = 1
                      /\ h.response.status \in {200, 500}
                      /\ h.response.status = 200 =>
                            /\ h.calls = FourCalls
                            /\ h.cache_stores = 1
                            /\ RequestedKey(h) \in DOMAIN DEBATE_CACHE
                            /\ DEBATE_CACHE[RequestedKey(h)] =
                                   [timestamp |-> h.stamp, response |-> h.response.body]
                            /\ \E old \in stored :
                                   /\ <<old.topic, old.model_key>> = pair
                                   /\ old.entry.timestamp + 60 <= h.stamp
                                   /\ old.entry.response # h.response.body

\* C5 witness: an entry written at minute 0 is looked up at minute 60 sharp, and
\* the request runs again and writes an entry stamped 60.
C5_Witness ==
    \E t \in DOMAIN req :
        /\ RunDebateDone(t)
        /\ req[t].lookup = "expired"
        /\ req[t].response.status = 200
        /\ req[t].stamp = 60
        /\ \E old \in stored :
               /\ <<old.topic, old.model_key>> = RequestedPair(req[t])
               /\ old.entry.timestamp = 0

\* C6: a request of either endpoint whose model key is none of llama3, mistral,
\* gemma, phi3 is answered 400 at once: it made no inference call, no evidence
\* call, no cache read or write and no log append, and nothing is ever stored
\* under such a model key.
C6_UnsupportedModelRejected ==
    /\ \A t \in DOMAIN req :
           ( /\ req[t].pc # "idle"
             /\ ModelKey(req[t].data) \notin {"llama3", "mistral", "gemma", "phi3"} )
           => /\ req[t].pc = "done"
              /\ req[t].response.status = 400
              /\ req[t].response.body.status = "error"
              /\ req[t].calls = <<>>
              /\ req[t].evidence_calls = 0
              /\ req[t].cache_reads = 0
              /\ req[t].cache_stores = 0
              /\ req[t].log_appends = 0
    /\ \A e \in stored : e.model_key \in {"llama3", "mistral", "gemma", "phi3"}

\* C6 witness: an analyze_topic request for the model key gpt5 has been answered
\* 400, on a server that has analysed and debated before.
C6_Witness ==
    \E t \in DOMAIN req :
        /\ req[t].pc = "done"
        /\ req[t].endpoint = "analyze_topic"
        /\ "topic" \in req[t].data.keys
        /\ ModelKey(req[t].data) = "gpt5"
        /\ req[t].response.status = 400
        /\ conversation_logs # <<>>
        /\ stored # {}

\* C7, as the specification states it: a request of either endpoint whose topic
\* is missing or is the empty string is answered 400 before any evidence or
\* inference call, and never gets past validation. The handlers check only that
\* the key "topic" is present, so {"topic": ""} violates this.
C7_EmptyTopicRejected ==
    \A t \in DOMAIN req :
        ( /\ req[t].pc # "idle"
          /\ \/ req[t].data.json = "invalid"
             \/ "topic" \notin req[t].data.keys
             \/ req[t].data.topic = "" )
        => /\ req[t].pc = "done"
           /\ req[t].response.status = 400
           /\ req[t].calls = <<>>
           /\ req[t].evidence_calls = 0

\* C8: every run_debate response with status 200, computed or served from the
\* cache, says "success" and holds exactly a transcript of the two statements of
\* tech_optimist and ai_ethicist, in this order, the auditor's report and the
\* moderator's synthesis.
C8_CompleteResult ==
    \A t \in DOMAIN req :
        (RunDebateDone(t) /\ req[t].response.status = 200) =>
            LET body == req[t].response.body
            IN  /\ DOMAIN body =
                      {"status", "debate_transcript", "audit_report", "final_synthesis"}
                /\ body.status = "success"
                /\ [i \in 1 .. Len(body.debate_transcript) |->
                        body.debate_transcript[i].role]
                      = <<"tech_optimist", "ai_ethicist">>
                /\ \A i \in 1 .. Len(body.debate_transcript) :
                       /\ body.debate_transcript[i].statement # Absent
                       /\ body.debate_transcript[i].statement.role =
                              body.debate_transcript[i].role
                /\ body.audit_report # Absent
                /\ body.audit_report.role = "bias_auditor"
                /\ body.final_synthesis # Absent
                /\ body.final_synthesis.role = "moderator"

\* C8 witness: a response served from the cache while the other thread has
\* computed a result of its own and is about to store it.
C8_Witness ==
    \E t, u \in DOMAIN req :
        /\ RunDebateDone(t)
        /\ req[t].lookup = "hit"
        /\ req[t].response.status = 200
        /\ req[u].pc = "store"

\* C9: a run_debate request that fails is answered 500 with a body of status and
\* message only and has written nothing: the cache changes only in a step that
\* ends a request with status 200. A stale entry the failed request found is
\* still there, unchanged and still stale, and a key it found missing is still
\* missing.
C9_FailureLeavesCache ==
    /\ [](\A t \in DOMAIN req :
            (RunDebateDone(t) /\ req[t].response.status = 500) =>
                LET h == req[t]
                    pair == RequestedPair(h)
                IN  /\ DOMAIN h.response.body = {"status", "message"}
                    /\ h.response.body.status = "error"
                    /\ h.cache_stores = 0
                    /\ h.lookup \in {"miss", "expired"}
                    /\ h.lookup = "miss" => RequestedKey(h) \notin DOMAIN DEBATE_CACHE
                    /\ h.lookup = "expired" =>
                          /\ RequestedKey(h) \in DOMAIN DEBATE_CACHE
                          /\ pair \in DOMAIN last_write
                          /\ DEBATE_CACHE[RequestedKey(h)] = last_write[pair]
                          /\ last_write[pair].timestamp + 60 <= now)
    /\ [][DEBATE_CACHE' # DEBATE_CACHE =>
             \E t \in DOMAIN req :
                 /\ req[t].pc # "done"
                 /\ req'[t].pc = "done"
                 /\ req'[t].response.status = 200]_vars

\* C9 witness: a request that found a stale entry failed after both debaters had
\* answered; the stale entry is in the cache.
C9_Witness ==
    \E t \in DOMAIN req :
        /\ RunDebateDone(t)
        /\ req[t].response.status = 500
        /\ req[t].lookup = "expired"
        /\ Len(req[t].calls) >= 3
        /\ RequestedKey(req[t]) \in DOMAIN DEBATE_CACHE
        /\ DEBATE_CACHE[RequestedKey(req[t])].timestamp = 0

\* C10: the cache holds, for every (topic, model key) ever written, the entry
\* written last; and a run_debate request that found no entry and succeeded has
\* gathered evidence, made the four calls, written once, and returned the result
\* it computed itself, the one it wrote under its own timestamp.
C10_LastWriterWins ==
    /\ \A pair \in DOMAIN last_write :
           /\ (pair[1] \o "_" \o pair[2]) \in DOMAIN DEBATE_CACHE
           /\ DEBATE_CACHE[pair[1] \o "_" \o pair[2]] = last_write[pair]
    /\ \A t \in DOMAIN req :
           ( /\ RunDebateDone(t)
             /\ req[t].lookup = "miss"
             /\ req[t].response.status = 200 )
           => LET h == req[t]
              IN  /\ h.calls = FourCalls
                  /\ h.evidence_calls = 1
                  /\ h.cache_stores = 1
                  /\ h.response.body.final_synthesis.at = h.stamp
                  /\ [topic |-> h.data.topic, model_key |-> ModelKey(h.data),
                      entry |-> [timestamp |-> h.stamp,
                                 response |-> h.response.body]] \in stored

\* C10 witness: two requests for one pair both found no entry; the one that
\* computed its result first wrote last, so the cache holds its entry, the older
\* of the two, and it returned that result.
C10_Witness ==
    \E t \in DOMAIN req :
        /\ RunDebateDone(t)
        /\ req[t].lookup = "miss"
        /\ req[t].response.status = 200
        /\ DEBATE_CACHE[RequestedKey(req[t])] =
               [timestamp |-> req[t].stamp, response |-> req[t].response.body]
        /\ \E e \in stored :
               /\ <<e.topic, e.model_key>> = RequestedPair(req[t])
               /\ e.entry.timestamp > req[t].stamp
               /\ e.entry.response # req[t].response.body

(***************************************************************************)
(* Further claims about call_ai_agent, checked under SpecFailover.         *)
(***************************************************************************)
\* C11: whatever the call before attempted, a call attempts the credentials in
\* the pool's order from the first one on (the attempted credentials are a
\* non-empty prefix of the pool), and no call changes the pool.
C11_StartsWithFirstCredential ==
    /\ [](call # NoCall =>
            /\ Len(call.result.attempted) \in 1 .. Len(hf_tokens)
            /\ call.result.attempted[1] = TokenName(1)
            /\ call.result.attempted =
                   SubSeq(hf_tokens, 1, Len(call.result.attempted)))
    /\ [][hf_tokens' = hf_tokens]_vars

\* C11 witness: the call before went through all three credentials, the first two
\* being over quota; this call got its answer from the first credential.
C11_Witness ==
    /\ Len(hf_tokens) = 3
    /\ call.previous = hf_tokens
    /\ call.remote[1].exc = "none"
    /\ call.result.kind = "return"
    /\ call.result.attempted = <<TokenName(1)>>

(***************************************************************************)
(* Further claims about the request handlers.                              *)
(***************************************************************************)
\* C12, as the specification states it: a request that has called
\* get_article_content goes on to its inference calls whatever the news search
\* and the article reader answered, and never ends in an error raised by the
\* evidence step. get_article_content catches RequestException only, so an
\* article without "title", "source" or "url" (KeyError, app.py:137-138)
\* violates this.
C12_EvidenceNeverFatal ==
    \A t \in DOMAIN req :
        (req[t].pc = "done" /\ req[t].evidence_calls > 0) =>
            /\ req[t].calls # <<>>
            /\ req[t].response.status = 500 =>
                   req[t].response.body.message.type # "KeyError"

\* s is an initial part of q.
IsPrefix(s, q) == Len(s) <= Len(q) /\ s = SubSeq(q, 1, Len(s))

\* C13: the inference calls of a run_debate request are made in the order
\* tech_optimist, ai_ethicist, bias_auditor, moderator, each at most once and each
\* only after the ones before it have returned; a request answered 200 without
\* the cache has made exactly these four, and one served from the cache none.
C13_StageOrder ==
    \A t \in DOMAIN req :
        req[t].endpoint = "run_debate" =>
            LET h == req[t]
            IN  /\ IsPrefix(h.calls, FourCalls)
                /\ h.pc = "store" => h.calls = FourCalls
                /\ (h.pc = "done" /\ h.response.status = 200) =>
                       h.calls = IF h.lookup = "hit" THEN <<>> ELSE FourCalls
                /\ (h.pc = "done" /\ h.response.status = 200 /\ h.lookup # "hit") =>
                       /\ h.response.body.debate_transcript[1].statement.role = FourCalls[1]
                       /\ h.response.body.debate_transcript[2].statement.role = FourCalls[2]
                       /\ h.response.body.audit_report.role = FourCalls[3]
                       /\ h.response.body.final_synthesis.role = FourCalls[4]

\* C13 witness: a request that missed the cache has been answered 200 after the
\* four calls while the other thread's request has been through them as well.
C13_Witness ==
    \E t, u \in DOMAIN req :
        /\ RunDebateDone(t)
        /\ req[t].lookup = "miss"
        /\ req[t].response.status = 200
        /\ req[t].calls = FourCalls
        /\ req[u].pc = "store"
        /\ req[u].calls = FourCalls

\* The errors an inference call can end with, app.py:117-118.
StageErrors == {AllTokensFailed, RemoteException(HttpError(500))}

C15_Terminates ==
    /\ [](/\ req[1].i <= Len(hf_tokens)
          /\ Len(req[1].calls) <= 4
          /\ req[1].attempts <= 4 * Len(hf_tokens)
          /\ req[1].pc = "call" =>
                 req[1].attempts <= (Len(req[1].calls) - 1) * Len(hf_tokens)
                                       + req[1].i - 1
          /\ req[1].pc = "done" <=> req[1].response # NoResponse
          /\ req[1].pc = "done" => req[1].response.status \in {200, 400, 500})
    /\ (req[1].pc # "idle") ~> (req[1].pc = "done")
    /\ [][req[1].pc = "done" => req'[1] = Idle]_vars

\* C15 witness: a request answered 200 after 4 * N requests to the service, every
\* call having gone through the whole pool.
C15_Witness ==
    /\ req[1].pc = "done"
    /\ req[1].response.status = 200
    /\ Len(hf_tokens) = MaxTokens
    /\ req[1].attempts = 4 * MaxTokens

(***************************************************************************)
(* Further claims about the cache.                                         *)
(***************************************************************************)
\* C16: no step removes a key from the cache; an entry appears or changes only in
\* the step in which a run_debate request for exactly that key returns 200, and
\* it is then that request's result under that request's timestamp; and a lookup
\* reads the entry written last for its pair, which is what a hit returns.
C16_CacheOnlyGrows ==
    [][/\ DOMAIN DEBATE_CACHE \subseteq DOMAIN DEBATE_CACHE'
       /\ \A k \in DOMAIN DEBATE_CACHE' :
              (k \notin DOMAIN DEBATE_CACHE \/ DEBATE_CACHE'[k] # DEBATE_CACHE[k]) =>
                  \E t \in DOMAIN req :
                      /\ req[t].pc = "store"
                      /\ RunDebateDone(t)'
                      /\ req'[t].response.status = 200
                      /\ RequestedKey(req'[t]) = k
                      /\ DEBATE_CACHE'[k] = [timestamp |-> req'[t].stamp,
                                             response |-> req'[t].response.body]
       /\ \A t \in DOMAIN req :
              /\ (req[t].pc = "lookup" /\ req'[t].pc = "check") =>
                     req'[t].cached_data = last_write[RequestedPair(req[t])]
              /\ (req[t].pc = "check" /\ req'[t].pc = "done") =>
                     /\ req'[t].lookup = "hit"
                     /\ req'[t].response.body = req[t].cached_data.response
      ]_vars

\* C16 witness: two results have been written for one pair, and a request is
\* served from the cache the newer of the two.
C16_Witness ==
    \E t \in DOMAIN req :
        /\ RunDebateDone(t)
        /\ req[t].lookup = "hit"
        /\ req[t].response.body = last_write[RequestedPair(req[t])].response
        /\ \E old \in stored :
               /\ <<old.topic, old.model_key>> = RequestedPair(req[t])
               /\ old.entry.response # req[t].response.body
               /\ old.entry.timestamp < last_write[RequestedPair(req[t])].timestamp

(***************************************************************************)
(* The shape of completions, checked under SpecShapes.                     *)
(***************************************************************************)
\* C17, as the specification states it: for a completion that came back, the call
\* returns the content of the first choice's message when the choice list is not
\* empty and the message has content; otherwise generated_text when the
\* completion has one; otherwise str(completion). call_ai_agent returns "" for a
\* message without content (app.py:102, 104) instead of going on to
\* generated_text or str(completion), which violates this.
C17_NormalisesShape ==
    call # NoCall =>
        LET c == call.remote[Len(call.remote)].completion
        IN  /\ call.result.kind = "return"
            /\ call.result.value =
                   IF c.choices # <<>> /\ c.choices[1].content # Absent
                   THEN c.choices[1].content
                   ELSE IF c.generated_text # Absent
                        THEN c.generated_text
                        ELSE Repr(c)

(***************************************************************************)
(* The cache under concurrent requests, checked under SpecThreads.         *)
(***************************************************************************)
\* entry is a whole result of one run_debate request for (topic, model_key): a
\* timestamp and a "success" payload with the statements of both debaters, the
\* audit and the synthesis, all four written for that topic by that model at
\* the time of the timestamp.
WholeEntry(entry, topic, model_key) ==
    LET body == entry.response
        OfTheRun(text, role) ==
            text = Text(SUPPORTED_MODELS[model_key], topic, role, entry.timestamp)
    IN  /\ entry.timestamp >= 0
        /\ DOMAIN body = {"status", "debate_transcript", "audit_report", "final_synthesis"}
        /\ body.status = "success"
        /\ Len(body.debate_transcript) = 2
        /\ body.debate_transcript[1].role = "tech_optimist"
        /\ body.debate_transcript[2].role = "ai_ethicist"
        /\ OfTheRun(body.debate_transcript[1].statement, "tech_optimist")
        /\ OfTheRun(body.debate_transcript[2].statement, "ai_ethicist")
        /\ OfTheRun(body.audit_report, "bias_auditor")
        /\ OfTheRun(body.final_synthesis, "moderator")

\* C18: in every state, every entry of the cache, and every entry a request has
\* read from it, is one that a single request wrote as a whole for that key, and
\* it is a whole result.
C18_EntriesComplete ==
    /\ \A k \in DOMAIN DEBATE_CACHE :
           \E e \in stored :
               /\ k = e.topic \o "_" \o e.model_key
               /\ DEBATE_CACHE[k] = e.entry
               /\ WholeEntry(e.entry, e.topic, e.model_key)
    /\ \A t \in DOMAIN req :
           req[t].pc = "check" =>
               \E e \in stored :
                   /\ RequestedPair(req[t]) = <<e.topic, e.model_key>>
                   /\ req[t].cached_data = e.entry
                   /\ WholeEntry(e.entry, e.topic, e.model_key)

\* C18 witness: a request has read the entry of its key and is about to compare
\* it with the clock while the other thread's request, for the same key, is about
\* to write a result of its own over it.
C18_Witness ==
    \E t, u \in DOMAIN req :
        /\ req[t].pc = "check"
        /\ req[u].pc = "store"
        /\ req[t].cache_key = req[u].cache_key
        /\ req[t].cached_data = DEBATE_CACHE[req[t].cache_key]
        /\ req[u].response_data # req[t].cached_data.response

(***************************************************************************)
(* The cache key, checked under SpecKeys.                                  *)
(***************************************************************************)
\* C19: different pairs of a topic and a supported model key have different cache
\* keys, so a lookup finds an entry only when the entry was stored for the
\* requested topic and model key, and finds it whenever it was.
C19_DistinctKeys ==
    /\ \A p \in Pairs, q \in Pairs :
           p # q => (p[1] \o "_" \o p[2]) # (q[1] \o "_" \o q[2])
    /\ \A t \in DOMAIN req :
           /\ req[t].pc = "check" =>
                  /\ DOMAIN DEBATE_CACHE = {req[t].topic \o "_" \o req[t].model_key}
                  /\ req[t].cached_data.response =
                         Result(req[t].topic, req[t].model_key, now)
           /\ req[t].pc = "evidence" =>
                  /\ req[t].lookup = "miss"
                  /\ DOMAIN DEBATE_CACHE # {req[t].topic \o "_" \o req[t].model_key}

\* C19 witness: the cache holds the result of (AI, llama3) under the key
\* "AI_llama3"; a request for the topic "AI_llama3" and the model mistral finds
\* no entry.
C19_Witness ==
    /\ DOMAIN DEBATE_CACHE = {"AI_llama3"}
    /\ req[1].pc = "evidence"
    /\ req[1].topic = "AI_llama3"
    /\ req[1].model_key = "mistral"
    /\ req[1].cache_key = "AI_llama3_mistral"

(***************************************************************************)
(* analyze_topic, checked under Spec.                                      *)
(***************************************************************************)
\* C20, as the specification states it: an answered analyze_topic request has
\* neither read nor written the debate cache; if it passed validation it has made
\* exactly one inference call, the analyst's; it has appended one log entry if
\* it is answered 200 and none otherwise; and a run_debate request appends none.
\* A request whose evidence step raises (app.py:137-138, KeyError) is answered 500
\* without any inference call, which violates "exactly one".
C20_AnalyzeTopicFrame ==
    \A t \in DOMAIN req :
        req[t].pc = "done" =>
            LET h == req[t]
            IN  IF h.endpoint = "analyze_topic"
                THEN /\ h.cache_reads = 0
                     /\ h.cache_stores = 0
                     /\ h.lookup = "none"
                     /\ WellFormed(h) => h.calls = <<"osint_analyst">>
                     /\ ~WellFormed(h) => h.calls = <<>>
                     /\ h.log_appends = IF h.response.status = 200 THEN 1 ELSE 0
                ELSE h.log_appends = 0

====
